---- MODULE Spec2Model ----
(***************************************************************************)
(* Hybrid retrieval of ChatNoir: the large-document search orchestrator    *)
(* (lexical + semantic ranking, Reciprocal Rank Fusion, optional           *)
(* reranking), the reranker module with its scoring backends, and the      *)
(* chat message chunker.                                                   *)
(*                                                                         *)
(* Numbers.  Semantic (cosine) and lexical (BM25) scores are fixed-point   *)
(* values in thousandths.  Every score that flows through the reranker or  *)
(* into a result is an exact rational [n, d] (d > 0), because RRF scores   *)
(* 1/(k + rank) are not fixed-point values.                                *)
(*                                                                         *)
(* Optional values (undefined / null in the source) are sequences of       *)
(* length 0 or 1: <<>> is undefined, <<v>> is the value v.                 *)
(***************************************************************************)
EXTENDS Integers, Sequences, FiniteSets, TLC

VARIABLES
    allChunks,        \* the chunk list loaded for the search (db.getAll / getAllFromIndex)
    keys,             \* browser environment: window present, keys held in localStorage
    opts,             \* the options the search was called with
    pc,               \* position of the search invocation
    lexicalResults,   \* local of the search: ranked output of the lexical scorer
    semanticScored,   \* local of the search: chunks sorted by cosine similarity
    combinedResults,  \* local of the search: the fused list, sorted by RRF score
    filtered,         \* local of the search: candidates that passed the threshold
    shouldRerank,     \* local of the search
    backend,          \* backend handed to rerank()
    results,          \* the list the search resolved with
    path,             \* which return statement produced `results`
    rrf,              \* a call of computeRRFScore on its own: arguments and values
    rk,               \* a call of rerank() on its own: arguments and resolved list
    sc,               \* a call of rerank() with a scoring backend: requests in flight
    ck,               \* a call of chunkChatMessages: arguments, loop position, chunks
    ld,               \* the large-document store and the calls on it in flight
    tc,               \* useClientTools: the addToolOutput ref, tool calls, outputs
    pv,               \* the session PDF cache and the getCachedPDF calls in flight
    dv                \* the document viewer: chat tabs and the active tab

searchVars == <<allChunks, keys, opts, pc, lexicalResults, semanticScored,
                combinedResults, filtered, shouldRerank, backend, results, path>>

\* what a search leaves alone
\* the application state around retrieval: documents, tools, cache, viewer
appVars == <<ld, tc, pv, dv>>

outsideSearch == <<rrf, rk, sc, ck, appVars>>

vars == <<searchVars, rrf, rk, sc, ck, appVars>>

\* no document store, tool call, PDF cache or viewer in the picture
AppIdle == ld = <<>> /\ tc = <<>> /\ pv = <<>> /\ dv = <<>>

----------------------------------------------------------------------------
(* Bounds of the model *)

MaxChunks == 3
MaxRank == 4
MaxDocs == 3

(* Program constants *)

DefaultThreshold == 300      \* threshold: minThreshold = 0.3, in thousandths
DefaultRrfK == 60            \* rrfK = 60
RerankThreshold == 200       \* DEFAULT_CONFIG.threshold = 0.2, in thousandths
RouteThreshold == 150        \* /api/rerank: threshold = 0.15, in thousandths
ScoreScale == 1000           \* fixed-point unit of the semantic and lexical scores

(* Input domains *)

\* what a chunk scores against the query: sem is its cosine similarity, lex its
\* lexical score (0: no query term in the chunk), both in thousandths
ChunkProfiles ==
    {[sem |-> 300, lex |-> 0], [sem |-> 455, lex |-> 1250],
     [sem |-> 250, lex |-> 455], [sem |-> 620, lex |-> 455]}
RrfKs == {0, DefaultRrfK}
TopKs == {1, 2}
RetrieveKs == {2, 3}
Backends == {"cohere", "openai", "api", "none"}

None == <<>>
Some(v) == <<v>>
IsNone(m) == m = <<>>
Get(m) == m[1]
\* a ?? b
Coalesce(m, dflt) == IF IsNone(m) THEN dflt ELSE Get(m)

----------------------------------------------------------------------------
(* Exact rationals *)

Rat(n, d) == [n |-> n, d |-> d]
RatZero == Rat(0, 1)
RatLt(a, b) == a.n * b.d < b.n * a.d
RatLeq(a, b) == a.n * b.d <= b.n * a.d
RatEq(a, b) == a.n * b.d = b.n * a.d
RatAdd(a, b) == Rat(a.n * b.d + b.n * a.d, a.d * b.d)
\* a fixed-point score as a rational
Milli(s) == Rat(s, ScoreScale)
\* Math.round(x * 100) / 100 for x >= 0
Round2(x) == Rat((200 * x.n + x.d) \div (2 * x.d), 100)

----------------------------------------------------------------------------
(* Array.prototype.sort: a stable sort.  Before(a, b) is "comparator(a, b) < 0". *)

InsertSorted(sorted, x, Before(_, _)) ==
    LET n == Len(sorted)
        hits == {p \in 1..n : Before(x, sorted[p])}
        at == IF hits = {} THEN n + 1
              ELSE CHOOSE p \in hits : \A q \in hits : p <= q
    IN  [i \in 1..(n + 1) |->
            IF i < at THEN sorted[i] ELSE IF i = at THEN x ELSE sorted[i - 1]]

StableSort(s, Before(_, _)) ==
    LET f[i \in 0..Len(s)] ==
            IF i = 0 THEN <<>> ELSE InsertSorted(f[i - 1], s[i], Before)
    IN  f[Len(s)]

\* Array.prototype.slice(0, end) for end >= 0
Slice0(s, end) == SubSeq(s, 1, IF end < Len(s) THEN end ELSE Len(s))

\* Array.prototype.filter
Filter(s, Keep(_)) ==
    LET idx == {i \in 1..Len(s) : Keep(s[i])}
        nth[p \in 0..Cardinality(idx)] ==
            IF p = 0 THEN 0 ELSE CHOOSE i \in idx : i > nth[p - 1] /\ \A j \in idx : j > nth[p - 1] => i <= j
    IN  [p \in 1..Cardinality(idx) |-> s[nth[p]]]

\* 1-indexed position of the entry whose chunk id is `id`, as the rank maps hold it
RankOf(ranked, id) ==
    LET hits == {i \in 1..Len(ranked) : ranked[i].chunk.id = id}
    IN  IF hits = {} THEN None ELSE Some(CHOOSE i \in hits : TRUE)

----------------------------------------------------------------------------
(* reranker.ts *)

\* isRerankingAvailable(): what localStorage and the runtime offer
isRerankingAvailable(k) ==
    [cohere |-> k.window /\ k.cohere,
     openai |-> k.window /\ k.openai,
     api    |-> k.window]

\* getRecommendedReranker, were the client-held OpenAI key to come before the
\* server-mediated scorer
getRecommendedRerankerOpenAIFirst(k) ==
    LET available == isRerankingAvailable(k)
    IN  IF available.cohere THEN "cohere"
        ELSE IF available.openai THEN "openai"
        ELSE IF available.api THEN "api"
        ELSE "none"

getRecommendedReranker(k) ==
    LET available == isRerankingAvailable(k)
    IN  IF available.cohere THEN "cohere"
        ELSE IF available.api THEN "api"
        ELSE IF available.openai THEN "openai"
        ELSE "none"

\* displayScore, were it to prefer the original retrieval score
displayScoreOriginalFirst(doc) ==
    IF ~IsNone(doc.originalScore) THEN Get(doc.originalScore)
    ELSE Coalesce(doc.semanticScore, RatZero)

\* typeof semanticScore === "number" ? semanticScore : (doc.originalScore ?? 0)
displayScore(doc) ==
    IF ~IsNone(doc.semanticScore) THEN Get(doc.semanticScore)
    ELSE Coalesce(doc.originalScore, RatZero)

\* PassThrough, were it to order the documents by their display score
PassThroughByScore(documents) ==
    LET Before(a, b) == RatLt(displayScore(b), displayScore(a))
        sorted == StableSort(documents, Before)
    IN  [i \in 1..Len(sorted) |->
            [id             |-> sorted[i].id,
             relevanceScore |-> displayScore(sorted[i]),
             originalScore  |-> sorted[i].originalScore,
             rank           |-> i]]

\* documents.map((doc, index) => ({..., relevanceScore: displayScore, rank: index + 1})):
\* the branch for backend "none" and, with the same body, the catch branch
PassThrough(documents) ==
    [i \in 1..Len(documents) |->
        [id             |-> documents[i].id,
         relevanceScore |-> displayScore(documents[i]),
         originalScore  |-> documents[i].originalScore,
         rank           |-> i]]

\* A chat-completion exchange of scoreWithGPT: ok is response.ok (FALSE also
\* stands for a rejected fetch or an unreadable body); num is parseFloat of the
\* reply in thousandths, None when parseFloat gives NaN.
GptThrows(resp) == ~resp.ok

\* GptScore, were a number outside [0, 1] scored 0
GptScoreZeroOutsideRange(resp) ==
    IF IsNone(resp.num) THEN 0
    ELSE IF Get(resp.num) < 0 \/ Get(resp.num) > ScoreScale THEN 0
    ELSE Get(resp.num)

\* isNaN(score) ? 0 : Math.max(0, Math.min(1, score))
GptScore(resp) ==
    IF IsNone(resp.num) THEN 0
    ELSE IF Get(resp.num) < 0 THEN 0
    ELSE IF Get(resp.num) > ScoreScale THEN ScoreScale
    ELSE Get(resp.num)

\* sort by score descending, slice(0, topK), filter by threshold, number the ranks
RankScored(scoredDocs, topK, threshold) ==
    LET Before(a, b) == RatLt(b.score, a.score)
        sorted == Slice0(StableSort(scoredDocs, Before), topK)
        Keep(item) == RatLeq(Milli(threshold), item.score)
        kept == Filter(sorted, Keep)
    IN  [r \in 1..Len(kept) |->
            [id             |-> kept[r].doc.id,
             relevanceScore |-> kept[r].score,
             originalScore  |-> kept[r].doc.originalScore,
             rank           |-> r]]

\* AwaitAll, were the entries in the order in which the requests settled
AwaitAllInCompletionOrder(exchanges, settled) ==
    [p \in 1..Len(exchanges) |-> Get(exchanges[settled[p]])]

\* The array Promise.all resolves with: one entry per request, in the order of
\* the requests, whatever the order in which they settled.  exchanges[i] is the
\* exchange request i settled with, settled lists the requests as they settled.
AwaitAll(exchanges, settled) == [i \in 1..Len(exchanges) |-> Get(exchanges[i])]

\* scoredDocs of rerankWithOpenAI: a request that throws scores its document by
\* doc.originalScore ?? 0
OpenAIScoredDocs(documents, resps) ==
    [i \in 1..Len(documents) |->
        [doc   |-> documents[i],
         score |-> IF GptThrows(resps[i])
                   THEN Coalesce(documents[i].originalScore, RatZero)
                   ELSE Milli(GptScore(resps[i])),
         index |-> i - 1]]

\* rerankWithOpenAI once the key is present: resps[i] is the exchange for documents[i]
rerankWithOpenAI(documents, resps, topK, threshold) ==
    RankScored(OpenAIScoredDocs(documents, resps), topK, threshold)

\* scoredDocs of POST /api/rerank: a request that throws scores its document by
\* metadata.semanticScore when a number, else originalScore ?? 0
RouteScoredDocs(documents, resps) ==
    [i \in 1..Len(documents) |->
        [doc   |-> documents[i],
         score |-> IF GptThrows(resps[i])
                   THEN displayScore(documents[i])
                   ELSE Milli(GptScore(resps[i])),
         index |-> i - 1]]

\* POST /api/rerank once a key is resolved and the body is valid
routePOST(documents, resps, topK) ==
    RankScored(RouteScoredDocs(documents, resps), topK, RouteThreshold)

\* rerankWithAPI on an OK response: data.results as the route built them
rerankWithAPI(documents, resps, topK) == routePOST(documents, resps, topK)

\* The Cohere service asked for top_n of the documents: the top_n most relevant,
\* most relevant first, each with the 0-based index of its document.
CohereResponse(scores, top_n) ==
    LET all == [i \in 1..Len(scores) |-> [index |-> i - 1, relevance_score |-> scores[i]]]
        Before(a, b) == a.relevance_score > b.relevance_score
    IN  Slice0(StableSort(all, Before), top_n)

\* rerankWithCohere on an OK response with body `data`
rerankWithCohere(documents, data, threshold) ==
    LET mapped == [r \in 1..Len(data) |->
            [id             |-> documents[data[r].index + 1].id,
             relevanceScore |-> Milli(data[r].relevance_score),
             originalScore  |-> documents[data[r].index + 1].originalScore,
             rank           |-> r]]
        Keep(x) == RatLeq(Milli(threshold), x.relevanceScore)
    IN  Filter(mapped, Keep)

----------------------------------------------------------------------------
(* large-documents: searchLargeDocuments / searchLargeDocument *)

\* The lexical scorer: chunks with a positive score, best first
largeDocLexicalSearch(chunks) ==
    LET Before(a, b) == a.lexicalScore > b.lexicalScore
        scored == [i \in 1..Len(chunks) |-> [chunk |-> chunks[i], lexicalScore |-> chunks[i].lex]]
        Hit(r) == r.lexicalScore > 0
    IN  StableSort(Filter(scored, Hit), Before)

\* computeRRFScore, were it to ignore the k it is given
computeRRFScoreFixedK(semanticRank, lexicalRank, k) ==
    RatAdd(IF ~IsNone(semanticRank) THEN Rat(1, DefaultRrfK + Get(semanticRank)) ELSE RatZero,
           IF ~IsNone(lexicalRank) THEN Rat(1, DefaultRrfK + Get(lexicalRank)) ELSE RatZero)

\* computeRRFScore, were each term rank / (k + rank)
computeRRFScoreRankOverK(semanticRank, lexicalRank, k) ==
    RatAdd(IF ~IsNone(semanticRank) THEN Rat(Get(semanticRank), k + Get(semanticRank))
           ELSE RatZero,
           IF ~IsNone(lexicalRank) THEN Rat(Get(lexicalRank), k + Get(lexicalRank))
           ELSE RatZero)

computeRRFScore(semanticRank, lexicalRank, k) ==
    LET score0 == RatZero
        score1 == IF ~IsNone(semanticRank)
                  THEN RatAdd(score0, Rat(1, k + Get(semanticRank))) ELSE score0
        score2 == IF ~IsNone(lexicalRank)
                  THEN RatAdd(score1, Rat(1, k + Get(lexicalRank))) ELSE score1
    IN  score2

\* semanticScored after semanticScored.sort((a, b) => b.score - a.score);
\* chunk.sem is cosineSimilarity(queryEmbedding, chunk.embedding)
SemanticRanking(chunks) ==
    LET Before(a, b) == a.score > b.score
    IN  StableSort([i \in 1..Len(chunks) |-> [chunk |-> chunks[i], score |-> chunks[i].sem]],
                   Before)

\* combinedResults as the loop over the chunks pushes it
CombineRRF(chunks, semRanked, lexRanked, k) ==
    [i \in 1..Len(chunks) |->
        LET id == chunks[i].id
            semanticRank == RankOf(semRanked, id)
            lexicalRank == RankOf(lexRanked, id)
        IN  [chunk         |-> chunks[i],
             rrfScore      |-> computeRRFScore(semanticRank, lexicalRank, k),
             semanticScore |-> IF IsNone(semanticRank) THEN 0
                               ELSE semRanked[Get(semanticRank)].score,
             lexicalScore  |-> IF IsNone(lexicalRank) THEN 0
                               ELSE lexRanked[Get(lexicalRank)].lexicalScore]]

\* SortByRRF, were the sort to put a later equal entry first
SortByRRFUnstable(combined) ==
    LET Before(a, b) == RatLeq(b.rrfScore, a.rrfScore)
    IN  StableSort(combined, Before)

\* combinedResults.sort((a, b) => b.rrfScore - a.rrfScore)
SortByRRF(combined) ==
    LET Before(a, b) == RatLt(b.rrfScore, a.rrfScore)
    IN  StableSort(combined, Before)

\* enableRerank ?? (getRecommendedReranker() !== "none")
ShouldRerank(o, k) == Coalesce(o.rerank, getRecommendedReranker(k) # "none")

\* CandidateCount, were the pool always retrieveK
CandidateCountAlwaysRetrieveK(o, rerankOn) == o.retrieveK

\* candidateCount = shouldRerank ? retrieveK : topK
CandidateCount(o, rerankOn) == IF rerankOn THEN o.retrieveK ELSE o.topK

\* FilterByThreshold, were it to keep every candidate when none passes
FilterByThresholdOrAll(candidates, minThreshold) ==
    LET Keep(r) == r.semanticScore >= minThreshold
        kept == Filter(candidates, Keep)
    IN  IF Len(kept) = 0 THEN candidates ELSE kept

\* candidates.filter((r) => r.semanticScore >= minThreshold)
FilterByThreshold(candidates, minThreshold) ==
    LET Keep(r) == r.semanticScore >= minThreshold
    IN  Filter(candidates, Keep)

\* rerankDocs: what the search hands to rerank()
RerankDocs(cands) ==
    [i \in 1..Len(cands) |->
        [id            |-> cands[i].chunk.id,
         originalScore |-> Some(cands[i].rrfScore),
         semanticScore |-> Some(Milli(cands[i].semanticScore))]]

\* LexicalFallback, were it to return every lexical result
LexicalFallbackNoSlice(lexRanked, topK) ==
    [i \in 1..Len(lexRanked) |->
        [id |-> lexRanked[i].chunk.id, score |-> Milli(lexRanked[i].lexicalScore),
         reranked |-> None]]

\* the lexical-only fallback of the catch around embedQuery
LexicalFallback(lexRanked, topK) ==
    LET top == Slice0(lexRanked, topK)
    IN  [i \in 1..Len(top) |->
            [id |-> top[i].chunk.id, score |-> Milli(top[i].lexicalScore), reranked |-> None]]

\* reranked.map(...): results built from the list rerank() resolved with
RerankedResults(reranked) ==
    [i \in 1..Len(reranked) |->
        [id |-> reranked[i].id, score |-> Round2(reranked[i].relevanceScore),
         reranked |-> Some(TRUE)]]

\* filtered.slice(0, topK).map(...): results without reranking
FusedResults(cands, topK) ==
    LET finalResults == Slice0(cands, topK)
    IN  [i \in 1..Len(finalResults) |->
            [id |-> finalResults[i].chunk.id,
             score |-> Round2(Milli(finalResults[i].semanticScore)),
             reranked |-> Some(FALSE)]]

----------------------------------------------------------------------------
(* Inputs of a search *)

Corpora ==
    UNION {{[i \in 1..n |-> [id |-> i, sem |-> f[i].sem, lex |-> f[i].lex]] :
                f \in [1..n -> ChunkProfiles]} : n \in 0..MaxChunks}

\* A search runs in the browser (it reads IndexedDB), so window is defined
Environments == [window : {TRUE}, cohere : BOOLEAN, openai : BOOLEAN]

\* The backend option is read only when reranking is on, so with rerank: false
\* it is left unset.
SearchOptions ==
    {o \in [topK            : TopKs,
            threshold       : {DefaultThreshold},
            rerank          : {None, Some(TRUE), Some(FALSE)},
            rerankerBackend : {None} \cup {Some(b) : b \in Backends},
            retrieveK       : RetrieveKs,
            rrfK            : RrfKs] :
        o.rerank = Some(FALSE) => IsNone(o.rerankerBackend)}

\* relevance scores a scoring service may give, in thousandths
ServiceScores == {180, 900}

\* chat-completion exchanges seen by a search
GptResponses ==
    {[ok |-> FALSE, num |-> None]} \cup {[ok |-> TRUE, num |-> Some(v)] : v \in ServiceScores}

----------------------------------------------------------------------------
(* The search invocation *)

Init ==
    /\ allChunks \in Corpora
    /\ keys \in Environments
    /\ opts \in SearchOptions
    /\ pc = "idle"
    /\ lexicalResults = <<>>
    /\ semanticScored = <<>>
    /\ combinedResults = <<>>
    /\ filtered = <<>>
    /\ shouldRerank = FALSE
    /\ backend = "none"
    /\ results = <<>>
    /\ path = "running"
    /\ rrf = <<>>
    /\ rk = <<>>
    /\ sc = <<>>
    /\ ck = <<>>
    /\ AppIdle

\* from the call to the await of embedQuery
StartSearch ==
    /\ pc = "idle"
    /\ IF Len(allChunks) = 0
       THEN /\ pc' = "done"
            /\ path' = "empty_corpus"
            /\ results' = <<>>
            /\ UNCHANGED lexicalResults
       ELSE /\ pc' = "embedding"
            /\ lexicalResults' = largeDocLexicalSearch(allChunks)
            /\ UNCHANGED <<path, results>>
    /\ UNCHANGED <<allChunks, keys, opts, semanticScored, combinedResults, filtered,
                   shouldRerank, backend, outsideSearch>>

\* embedQuery rejects: the catch returns the lexical-only results
EmbedQueryFails ==
    /\ pc = "embedding"
    /\ pc' = "done"
    /\ path' = "lexical"
    /\ results' = LexicalFallback(lexicalResults, opts.topK)
    /\ UNCHANGED <<allChunks, keys, opts, lexicalResults, semanticScored, combinedResults,
                   filtered, shouldRerank, backend, outsideSearch>>

\* embedQuery resolves: rank, fuse, pick and filter the candidates, then either
\* return or call rerank()
EmbedQueryOk ==
    /\ pc = "embedding"
    /\ semanticScored' = SemanticRanking(allChunks)
    /\ combinedResults' =
          SortByRRF(CombineRRF(allChunks, semanticScored', lexicalResults, opts.rrfK))
    /\ shouldRerank' = ShouldRerank(opts, keys)
    /\ filtered' =
          FilterByThreshold(Slice0(combinedResults', CandidateCount(opts, shouldRerank')),
                            opts.threshold)
    /\ IF Len(filtered') = 0
       THEN /\ pc' = "done"
            /\ path' = "empty_filtered"
            /\ results' = <<>>
            /\ UNCHANGED backend
       ELSE IF shouldRerank' /\ Len(filtered') > 1
       THEN /\ pc' = "reranking"
            /\ backend' = Coalesce(opts.rerankerBackend, getRecommendedReranker(keys))
            /\ UNCHANGED <<path, results>>
       ELSE /\ pc' = "done"
            /\ path' = "fused"
            /\ results' = FusedResults(filtered', opts.topK)
            /\ UNCHANGED backend
    /\ UNCHANGED <<allChunks, keys, opts, lexicalResults, outsideSearch>>

Resolve(reranked, how) ==
    /\ pc' = "done"
    /\ path' = how
    /\ results' = RerankedResults(reranked)
    /\ UNCHANGED <<allChunks, keys, opts, lexicalResults, semanticScored, combinedResults,
                   filtered, shouldRerank, backend, outsideSearch>>

\* rerank() with backend "none": the pass-through
RerankNoOp ==
    /\ pc = "reranking"
    /\ backend = "none"
    /\ Resolve(PassThrough(RerankDocs(filtered)), "rerank_none")

\* rerank() whose backend throws (no key, rejected fetch, non-OK or unreadable
\* response): the catch of rerank() maps the documents in input order
RerankBackendFails ==
    /\ pc = "reranking"
    /\ backend # "none"
    /\ (backend = "openai") => ~isRerankingAvailable(keys).openai
    /\ Resolve(PassThrough(RerankDocs(filtered)), "rerank_failed")

RerankCohere ==
    /\ pc = "reranking"
    /\ backend = "cohere"
    /\ isRerankingAvailable(keys).cohere
    /\ \E scores \in [1..Len(filtered) -> ServiceScores] :
          Resolve(rerankWithCohere(RerankDocs(filtered), CohereResponse(scores, opts.topK),
                                   RerankThreshold), "rerank_scored")

RerankOpenAI ==
    /\ pc = "reranking"
    /\ backend = "openai"
    /\ isRerankingAvailable(keys).openai
    /\ \E resps \in [1..Len(filtered) -> GptResponses] :
          Resolve(rerankWithOpenAI(RerankDocs(filtered), resps, opts.topK, RerankThreshold),
                  "rerank_scored")

RerankAPI ==
    /\ pc = "reranking"
    /\ backend = "api"
    /\ \E resps \in [1..Len(filtered) -> GptResponses] :
          Resolve(rerankWithAPI(RerankDocs(filtered), resps, opts.topK), "rerank_scored")

Next ==
    \/ StartSearch
    \/ EmbedQueryFails
    \/ EmbedQueryOk
    \/ RerankNoOp
    \/ RerankBackendFails
    \/ RerankCohere
    \/ RerankOpenAI
    \/ RerankAPI

Spec == Init /\ [][Next]_vars

----------------------------------------------------------------------------
(* computeRRFScore on its own: two chunks A and B that share one rank (or     *)
(* both lack it) and hold the ranks a and b in the other ranking.            *)

\* no search is running
SearchIdle ==
    /\ allChunks = <<>>
    /\ keys = [window |-> TRUE, cohere |-> FALSE, openai |-> FALSE]
    /\ opts = <<>>
    /\ pc = "off"
    /\ lexicalResults = <<>>
    /\ semanticScored = <<>>
    /\ combinedResults = <<>>
    /\ filtered = <<>>
    /\ shouldRerank = FALSE
    /\ backend = "none"
    /\ results = <<>>
    /\ path = "off"

Ranks == 1..MaxRank
MaybeRanks == {None} \cup {Some(r) : r \in Ranks}

InitRRF ==
    /\ SearchIdle
    /\ rk = <<>>
    /\ sc = <<>>
    /\ ck = <<>>
    /\ AppIdle
    /\ rrf \in [k : RrfKs \cup {1}, shared : MaybeRanks, sharedIsSemantic : BOOLEAN,
                a : Ranks, b : Ranks, scoreA : {None}, scoreB : {None}]

ComputeFused ==
    /\ rrf # <<>>
    /\ IsNone(rrf.scoreA)
    /\ rrf' = [rrf EXCEPT
                 !.scoreA = Some(IF rrf.sharedIsSemantic
                                 THEN computeRRFScore(rrf.shared, Some(rrf.a), rrf.k)
                                 ELSE computeRRFScore(Some(rrf.a), rrf.shared, rrf.k)),
                 !.scoreB = Some(IF rrf.sharedIsSemantic
                                 THEN computeRRFScore(rrf.shared, Some(rrf.b), rrf.k)
                                 ELSE computeRRFScore(Some(rrf.b), rrf.shared, rrf.k))]
    /\ UNCHANGED <<searchVars, rk, sc, ck, appVars>>

NextRRF == ComputeFused

SpecRRF == InitRRF /\ [][NextRRF]_vars

----------------------------------------------------------------------------
(* rerank() on its own *)

\* scores a caller may attach to a candidate
OriginalScores == {None, Some(Rat(1, 61)), Some(Rat(2, 61))}
\* metadata.semanticScore when it is a number, None otherwise
MetadataSemanticScores == {None, Some(Milli(455)), Some(Milli(620))}

Candidates ==
    UNION {{[i \in 1..n |-> [id |-> i, originalScore |-> f[i].originalScore,
                             semanticScore |-> f[i].semanticScore]] :
                f \in [1..n -> [originalScore : OriginalScores,
                                semanticScore : MetadataSemanticScores]]} : n \in 0..MaxDocs}

\* where the reranker module runs: a browser with its localStorage keys, or a
\* runtime without window (no localStorage, hence no client-held key)
RuntimeEnvironments ==
    Environments \cup {[window |-> FALSE, cohere |-> FALSE, openai |-> FALSE]}

InitRerank ==
    /\ SearchIdle
    /\ rrf = <<>>
    /\ sc = <<>>
    /\ ck = <<>>
    /\ AppIdle
    /\ rk \in [documents : Candidates, backend : {"none"}, topK : TopKs, out : {None},
                keys : RuntimeEnvironments, recommended : {None}]

\* rerank(query, documents, {backend: "none"})
RerankPassThrough ==
    /\ rk # <<>>
    /\ IsNone(rk.out)
    /\ rk.backend = "none"
    /\ rk' = [rk EXCEPT !.out = Some(IF Len(rk.documents) = 0 THEN <<>>
                                     ELSE PassThrough(rk.documents))]
    /\ UNCHANGED <<searchVars, rrf, sc, ck, appVars>>

\* getRecommendedReranker() in the environment of the call
Recommend ==
    /\ rk # <<>>
    /\ IsNone(rk.recommended)
    /\ rk' = [rk EXCEPT !.recommended = Some(getRecommendedReranker(rk.keys))]
    /\ UNCHANGED <<searchVars, rrf, sc, ck, appVars>>

NextRerank ==
    \/ RerankPassThrough
    \/ Recommend

SpecRerank == InitRerank /\ [][NextRerank]_vars

----------------------------------------------------------------------------
(* rerank() with a scoring backend.  The chat-model backends (openai in the    *)
(* browser, api on the server) start one scoring request per document and      *)
(* await them together; the requests settle one at a time, in any order.       *)

ScoringBackends == {"cohere", "openai", "api"}

\* config.threshold: the default and a stricter one
ConfiguredThresholds == {RerankThreshold, 500}

\* what a chat-completion request can settle with: a failure, a reply that is
\* not a number, numbers below, inside and above the range
GptReplies ==
    GptResponses \cup {[ok |-> TRUE, num |-> None], [ok |-> TRUE, num |-> Some(-200)],
                       [ok |-> TRUE, num |-> Some(1500)]}

\* n candidates as a search hands them over: fused score and cosine similarity
ScoringDocs(n) ==
    [i \in 1..n |-> [id            |-> i,
                     originalScore |-> Some(Rat(1, DefaultRrfK + i)),
                     semanticScore |-> Some(Milli(620 - 100 * i))]]

InitScoring ==
    /\ SearchIdle
    /\ rrf = <<>>
    /\ rk = <<>>
    /\ ck = <<>>
    /\ AppIdle
    /\ sc \in {[documents  |-> ScoringDocs(n),
                backend    |-> b,
                topK       |-> t,
                threshold  |-> th,
                exchanges  |-> [i \in 1..n |-> None],
                settled    |-> <<>>,
                scoredDocs |-> None,
                out        |-> None] :
                  n \in 1..MaxDocs, b \in ScoringBackends, t \in TopKs,
                  th \in ConfiguredThresholds}

\* one scoreWithGPT request settles: its fetch resolved or rejected
RequestSettles ==
    /\ sc # <<>>
    /\ sc.backend \in {"openai", "api"}
    /\ \E i \in 1..Len(sc.documents) :
          /\ IsNone(sc.exchanges[i])
          /\ \E r \in GptReplies :
                sc' = [sc EXCEPT !.exchanges[i] = Some(r), !.settled = Append(@, i)]
    /\ UNCHANGED <<searchVars, rrf, rk, ck, appVars>>

AllSettled == \A i \in 1..Len(sc.documents) : ~IsNone(sc.exchanges[i])

\* rerankWithOpenAI after await Promise.all: sort, slice, filter, rank
OpenAIBatchCompletes ==
    /\ sc # <<>>
    /\ sc.backend = "openai"
    /\ IsNone(sc.out)
    /\ AllSettled
    /\ LET resps == AwaitAll(sc.exchanges, sc.settled)
       IN  sc' = [sc EXCEPT
                    !.scoredDocs = Some(OpenAIScoredDocs(sc.documents, resps)),
                    !.out = Some(rerankWithOpenAI(sc.documents, resps, sc.topK,
                                                  sc.threshold))]
    /\ UNCHANGED <<searchVars, rrf, rk, ck, appVars>>

\* POST /api/rerank after await Promise.all, and rerankWithAPI returning data.results
RouteBatchCompletes ==
    /\ sc # <<>>
    /\ sc.backend = "api"
    /\ IsNone(sc.out)
    /\ AllSettled
    /\ LET resps == AwaitAll(sc.exchanges, sc.settled)
       IN  sc' = [sc EXCEPT
                    !.scoredDocs = Some(RouteScoredDocs(sc.documents, resps)),
                    !.out = Some(rerankWithAPI(sc.documents, resps, sc.topK))]
    /\ UNCHANGED <<searchVars, rrf, rk, ck, appVars>>

\* rerankWithCohere on an OK response
CohereResponds ==
    /\ sc # <<>>
    /\ sc.backend = "cohere"
    /\ IsNone(sc.out)
    /\ \E scores \in [1..Len(sc.documents) -> ServiceScores] :
          sc' = [sc EXCEPT
                   !.out = Some(rerankWithCohere(sc.documents,
                                                 CohereResponse(scores, sc.topK),
                                                 sc.threshold))]
    /\ UNCHANGED <<searchVars, rrf, rk, ck, appVars>>

NextScoring ==
    \/ RequestSettles
    \/ OpenAIBatchCompletes
    \/ RouteBatchCompletes
    \/ CohereResponds

SpecScoring == InitScoring /\ [][NextScoring]_vars

----------------------------------------------------------------------------
(* chat-chunker.ts.  A text is a sequence of pieces: the role marker, the      *)
(* units of the message (stretches of text with no sentence boundary inside,   *)
(* each of a known length), and the whitespace between them: "space" after a   *)
(* sentence end, "break" a run of blank lines between paragraphs.              *)

CharsPerToken == 4           \* estimateTokens: text.length / 4
UserPrefixLen == 8           \* "[User]: ".length
AssistantPrefixLen == 13     \* "[Assistant]: ".length
ParagraphSepLen == 2         \* "\n\n".length
SentenceSepLen == 1          \* " ".length

\* messages and units of a conversation, together
MaxItems == 5

UnitLens == {4, 16}
MaxTokensChoices == {5, 7}
Roles == {"user", "assistant", "system"}

PrefixPiece(role) ==
    [kind |-> "prefix", role |-> role, msg |-> 0, unit |-> 0,
     len  |-> IF role = "user" THEN UserPrefixLen ELSE AssistantPrefixLen]
SpacePiece == [kind |-> "space", role |-> "", msg |-> 0, unit |-> 0, len |-> SentenceSepLen]
BreakPiece == [kind |-> "break", role |-> "", msg |-> 0, unit |-> 0, len |-> ParagraphSepLen]
\* unit u of the text of message m
UnitPiece(m, u, len) == [kind |-> "unit", role |-> "", msg |-> m, unit |-> u, len |-> len]

\* text.length
TextLen(text) ==
    LET sum[i \in 0..Len(text)] == IF i = 0 THEN 0 ELSE sum[i - 1] + text[i].len
    IN  sum[Len(text)]

\* Math.ceil(text.length / 4)
estimateTokens(text) == (TextLen(text) + CharsPerToken - 1) \div CharsPerToken

\* String.prototype.trim
Trim(text) ==
    LET solid == {i \in 1..Len(text) : text[i].kind \notin {"space", "break"}}
    IN  IF solid = {} THEN <<>>
        ELSE SubSeq(text, CHOOSE i \in solid : \A j \in solid : i <= j,
                          CHOOSE i \in solid : \A j \in solid : j <= i)

\* text.split(separator).map(trim).filter(nonempty), the separator being the
\* whitespace pieces of the given kind
SplitAt(text, kind) ==
    LET cuts == {i \in 1..Len(text) : text[i].kind = kind}
        parts[i \in 0..Len(text)] ==
            IF i = 0 THEN <<<<>>>>
            ELSE IF i \in cuts THEN Append(parts[i - 1], <<>>)
            ELSE [parts[i - 1] EXCEPT ![Len(parts[i - 1])] = Append(@, text[i])]
        trimmed == [p \in 1..Len(parts[Len(text)]) |-> Trim(parts[Len(text)][p])]
    IN  SelectSeq(trimmed, LAMBDA part : Len(part) > 0)

\* text.split(/(?<=[.!?])\s+/): a paragraph's sentences
splitBySentences(text) == SplitAt(text, "space")

\* text.split(/\n\n+/): a text's paragraphs
splitByParagraphs(text) == SplitAt(text, "break")

\* the text parts of messages[m] joined: unit u follows a paragraph break when
\* it opens a paragraph, a space otherwise
extractTextFromMessage(messages, m) ==
    LET units == messages[m].units
        text[u \in 0..Len(units)] ==
            IF u = 0 THEN <<>>
            ELSE IF u = 1 THEN <<UnitPiece(m, 1, units[1].len)>>
            ELSE text[u - 1] \o <<IF units[u].newPara THEN BreakPiece ELSE SpacePiece,
                                  UnitPiece(m, u, units[u].len)>>
    IN  text[Len(units)]

\* shouldIncludeMessage, were it to look at the text only
shouldIncludeMessageAnyRole(messages, m) ==
    Len(Trim(extractTextFromMessage(messages, m))) > 0

shouldIncludeMessage(messages, m) ==
    /\ messages[m].role \in {"user", "assistant"}
    /\ Len(Trim(extractTextFromMessage(messages, m))) > 0

\* what the loops over one message share: m is
\* [rolePrefix, role, messageIndex, maxTokens]; a loop state is
\* [chunks, currentChunk, isFirstChunk]

\* if (currentChunk.trim() && currentChunk !== rolePrefix) chunks.push({...})
PushChunk(chunks, currentChunk, m) ==
    IF Len(Trim(currentChunk)) > 0 /\ currentChunk # m.rolePrefix
    THEN Append(chunks, [text         |-> Trim(currentChunk),
                         index        |-> Len(chunks),
                         messageRole  |-> m.role,
                         messageIndex |-> m.messageIndex])
    ELSE chunks

\* StartChunk, were only the first chunk of a message to carry the role marker
StartChunkWithoutPrefix(rolePrefix, content) == content

\* rolePrefix + sentence, rolePrefix + paragraph: the chunk a unit opens
StartChunk(rolePrefix, content) == rolePrefix \o content

\* SentenceStep, were it not to save the chunk in progress when a sentence does
\* not fit
SentenceStepNoSave(st, sentence, m) ==
    LET sentenceToAdd == IF st.isFirstChunk THEN sentence ELSE <<SpacePiece>> \o sentence
        sentenceCombined == st.currentChunk \o sentenceToAdd
    IN  IF estimateTokens(sentenceCombined) <= m.maxTokens
        THEN [st EXCEPT !.currentChunk = sentenceCombined, !.isFirstChunk = FALSE]
        ELSE [st EXCEPT !.currentChunk = StartChunk(m.rolePrefix, sentence),
                        !.isFirstChunk = FALSE]

\* the body of for (const sentence of sentences)
SentenceStep(st, sentence, m) ==
    LET sentenceToAdd == IF st.isFirstChunk THEN sentence ELSE <<SpacePiece>> \o sentence
        sentenceCombined == st.currentChunk \o sentenceToAdd
    IN  IF estimateTokens(sentenceCombined) <= m.maxTokens
        THEN [st EXCEPT !.currentChunk = sentenceCombined, !.isFirstChunk = FALSE]
        ELSE [chunks       |-> PushChunk(st.chunks, st.currentChunk, m),
              currentChunk |-> StartChunk(m.rolePrefix, sentence),
              isFirstChunk |-> FALSE]

\* the sentence loop over a paragraph that is too large on its own
SentenceLoop(chunks, paragraph, m) ==
    LET sentences == splitBySentences(paragraph)
        st[k \in 0..Len(sentences)] ==
            IF k = 0
            THEN [chunks |-> chunks, currentChunk |-> m.rolePrefix, isFirstChunk |-> TRUE]
            ELSE SentenceStep(st[k - 1], sentences[k], m)
    IN  st[Len(sentences)]

\* the body of for (const paragraph of paragraphs)
ParagraphStep(st, paragraph, m) ==
    LET toAdd == IF st.isFirstChunk THEN paragraph ELSE <<BreakPiece>> \o paragraph
        combined == st.currentChunk \o toAdd
        saved == PushChunk(st.chunks, st.currentChunk, m)
        paragraphWithPrefix == StartChunk(m.rolePrefix, paragraph)
    IN  IF estimateTokens(combined) <= m.maxTokens
        THEN [st EXCEPT !.currentChunk = combined, !.isFirstChunk = FALSE]
        ELSE IF estimateTokens(paragraphWithPrefix) > m.maxTokens
        THEN SentenceLoop(saved, paragraph, m)
        ELSE [chunks       |-> saved,
              currentChunk |-> paragraphWithPrefix,
              isFirstChunk |-> FALSE]

\* the else branch for a message that does not fit in one chunk: the paragraph
\* loop and the push of the last chunk
SplitMessage(chunks, rawText, m) ==
    LET paragraphs == splitByParagraphs(rawText)
        st[k \in 0..Len(paragraphs)] ==
            IF k = 0
            THEN [chunks |-> chunks, currentChunk |-> m.rolePrefix, isFirstChunk |-> TRUE]
            ELSE ParagraphStep(st[k - 1], paragraphs[k], m)
        last == st[Len(paragraphs)]
    IN  PushChunk(last.chunks, last.currentChunk, m)

\* Reindex, were the index to count the chunks of one message
ReindexPerMessage(chunks) ==
    [i \in 1..Len(chunks) |->
        [chunks[i] EXCEPT !.index =
            Cardinality({j \in 1..(i - 1) :
                            chunks[j].messageIndex = chunks[i].messageIndex})]]

\* chunks.forEach((chunk, i) => { chunk.index = i })
Reindex(chunks) == [i \in 1..Len(chunks) |-> [chunks[i] EXCEPT !.index = i - 1]]

(* Inputs of chunkChatMessages.  A conversation is built item by item, an    *)
(* item being a new message or one more unit of text in the last message.    *)

\* a unit of text: its length, and whether it opens a paragraph
Units == [len : UnitLens, newPara : BOOLEAN]

\* the units that can follow in the last message of c: its first unit opens its
\* first paragraph
NextUnits(c) ==
    IF Len(c[Len(c)].units) = 0 THEN {u \in Units : u.newPara} ELSE Units

AddUnit(c, u) == [c EXCEPT ![Len(c)].units = Append(@, u)]

Conversations ==
    LET ofSize[n \in 0..MaxItems] ==
            IF n = 0 THEN {<<>>}
            ELSE LET shorter == ofSize[n - 1]
                 IN  {Append(c, [role |-> r, units |-> <<>>]) : c \in shorter, r \in Roles}
                       \cup UNION {{AddUnit(c, u) : u \in NextUnits(c)} :
                                       c \in {x \in shorter : Len(x) > 0}}
    IN  UNION {ofSize[n] : n \in 0..MaxItems}

InitChunk ==
    /\ SearchIdle
    /\ rrf = <<>>
    /\ rk = <<>>
    /\ sc = <<>>
    /\ AppIdle
    /\ ck \in [messages : Conversations, maxTokens : MaxTokensChoices, next : {1},
               chunks : {<<>>}, messageIndex : {0}, returned : {FALSE}]

\* the message the loop is at, and what the loop body derives from it
AtMessage == ck # <<>> /\ ck.next <= Len(ck.messages)
rawText == extractTextFromMessage(ck.messages, ck.next)
rolePrefix == <<PrefixPiece(ck.messages[ck.next].role)>>
prefixedText == rolePrefix \o rawText

\* if (!shouldIncludeMessage(message)) continue
ChunkSkipMessage ==
    /\ AtMessage
    /\ ~shouldIncludeMessage(ck.messages, ck.next)
    /\ ck' = [ck EXCEPT !.next = @ + 1]
    /\ UNCHANGED <<searchVars, rrf, rk, sc, appVars>>

\* the message fits in one chunk
ChunkWholeMessage ==
    /\ AtMessage
    /\ shouldIncludeMessage(ck.messages, ck.next)
    /\ estimateTokens(prefixedText) <= ck.maxTokens
    /\ ck' = [ck EXCEPT
                !.chunks = Append(@, [text         |-> prefixedText,
                                      index        |-> Len(ck.chunks),
                                      messageRole  |-> ck.messages[ck.next].role,
                                      messageIndex |-> ck.messageIndex]),
                !.messageIndex = @ + 1,
                !.next = @ + 1]
    /\ UNCHANGED <<searchVars, rrf, rk, sc, appVars>>

\* the message does not fit: split on paragraphs, then sentences
ChunkSplitMessage ==
    /\ AtMessage
    /\ shouldIncludeMessage(ck.messages, ck.next)
    /\ estimateTokens(prefixedText) > ck.maxTokens
    /\ ck' = [ck EXCEPT
                !.chunks = SplitMessage(@, rawText,
                                        [rolePrefix   |-> rolePrefix,
                                         role         |-> ck.messages[ck.next].role,
                                         messageIndex |-> ck.messageIndex,
                                         maxTokens    |-> ck.maxTokens]),
                !.messageIndex = @ + 1,
                !.next = @ + 1]
    /\ UNCHANGED <<searchVars, rrf, rk, sc, appVars>>

\* after the loop: re-index and return
ChunkReturn ==
    /\ ck # <<>>
    /\ ck.next > Len(ck.messages)
    /\ ~ck.returned
    /\ ck' = [ck EXCEPT !.chunks = Reindex(@), !.returned = TRUE]
    /\ UNCHANGED <<searchVars, rrf, rk, sc, appVars>>

NextChunk ==
    \/ ChunkSkipMessage
    \/ ChunkWholeMessage
    \/ ChunkSplitMessage
    \/ ChunkReturn

SpecChunk == InitChunk /\ [][NextChunk]_vars

----------------------------------------------------------------------------
(* large-documents: the stores of one uploaded document (its id is the      *)
(* UUID storeLargeDocument generates) and the calls that touch them.  Every  *)
(* IndexedDB request is atomic and takes effect when it is issued; a call    *)
(* yields at each await, so calls interleave between requests.               *)

BATCH_SIZE == 20             \* chunks embedded per embedTexts call

\* embedding batches of the largest file
MaxBatches == 2

\* calls of indexLargeDocumentInBackground for the document: that of
\* handleUpload, and one more with the same or another file
Runs == {1, 2}

\* what chunkMarkdown makes of a file: no chunk, a part of a batch, or full
\* batches and one chunk more
ChunkCounts == {0, 2} \cup {BATCH_SIZE * b + 1 : b \in 1..(MaxBatches - 1)}

\* the record storeLargeDocument creates
InitialMetadata ==
    [status |-> "uploading", chunkCount |-> 0, indexedAt |-> 0,
     errorMessage |-> None, filename |-> "file.name"]

\* allChunkRecords of run r after the batches up to chunk count - 1; run
\* stands for what tells the records of two runs apart (embedding, updatedAt)
ChunkRecords(r, count) == {[chunkIndex |-> i, run |-> r] : i \in 0..(count - 1)}

\* tx.store.put(record) for each record: a record replaces the one with its id
PutChunks(chunks, records) ==
    {c \in chunks : \A rec \in records : rec.chunkIndex # c.chunkIndex} \cup records

\* the catch block, were it to leave the record as it is
FailedMetadataUnmarked(metadata, message) == metadata

\* the catch block: metadata.status = "error"; metadata.errorMessage = ...
FailedMetadata(metadata, message) ==
    [metadata EXCEPT !.status = "error", !.errorMessage = Some(message)]

IdleRun == [pc |-> "idle", chunks |-> 0, metadata |-> None, i |-> 0, thrown |-> None]

InitDocs ==
    /\ SearchIdle
    /\ rrf = <<>>
    /\ rk = <<>>
    /\ sc = <<>>
    /\ ck = <<>>
    /\ tc = <<>>
    /\ pv = <<>>
    /\ dv = <<>>
    /\ ld = [documents |-> None,
             chunks    |-> {},
             files     |-> FALSE,
             store     |-> "idle",
             runs      |-> [r \in Runs |-> IdleRun],
             delete    |-> [pc |-> "idle", chunks |-> {}],
             rename    |-> [pc |-> "idle", doc |-> None]]

outsideDocs == <<searchVars, rrf, rk, sc, ck, tc, pv, dv>>

\* storeLargeDocument: await db.put("documents", metadata)
StoreMetadata ==
    /\ ld.store = "idle"
    /\ ld' = [ld EXCEPT !.documents = Some(InitialMetadata), !.store = "metadata"]
    /\ UNCHANGED outsideDocs

\* storeLargeDocument: await storeDocumentFile(...); return
StoreFile ==
    /\ ld.store = "metadata"
    /\ ld' = [ld EXCEPT !.files = TRUE, !.store = "returned"]
    /\ UNCHANGED outsideDocs

\* indexLargeDocumentInBackground(documentId, file): the first call is that of
\* handleUpload, after storeLargeDocument returned
IndexCall(r, count) ==
    /\ ld.store = "returned"
    /\ ld.runs[r].pc = "idle"
    /\ r > 1 => ld.runs[r - 1].pc # "idle"
    /\ ld' = [ld EXCEPT !.runs[r] = [IdleRun EXCEPT !.pc = "called", !.chunks = count]]
    /\ UNCHANGED outsideDocs

\* let metadata = await db.get("documents", documentId); if (!metadata) throw
IndexGetMetadata(r) ==
    /\ ld.runs[r].pc = "called"
    /\ ld' = IF IsNone(ld.documents)
             THEN [ld EXCEPT !.runs[r].pc = "rejected",
                             !.runs[r].thrown = Some("not found")]
             ELSE [ld EXCEPT !.runs[r].pc = "got",
                             !.runs[r].metadata = ld.documents]
    /\ UNCHANGED outsideDocs

\* metadata.status = "indexing"; await db.put("documents", metadata)
IndexPutIndexing(r) ==
    /\ ld.runs[r].pc = "got"
    /\ LET metadata == [Get(ld.runs[r].metadata) EXCEPT !.status = "indexing"]
       IN  ld' = [ld EXCEPT !.documents = Some(metadata),
                            !.runs[r].metadata = Some(metadata),
                            !.runs[r].pc = "parsing"]
    /\ UNCHANGED outsideDocs

\* the catch block of run r, entered with the given error
IndexFails(r, message) ==
    LET metadata == FailedMetadata(Get(ld.runs[r].metadata), message)
    IN  ld' = [ld EXCEPT !.documents = Some(metadata),
                         !.runs[r].metadata = Some(metadata),
                         !.runs[r].pc = "rejected",
                         !.runs[r].thrown = Some(message)]

\* the text was extracted; chunkMarkdown; if (chunks.length === 0) throw
IndexParsed(r) ==
    /\ ld.runs[r].pc = "parsing"
    /\ IF ld.runs[r].chunks = 0
       THEN IndexFails(r, "Document produced no chunks. It may be empty.")
       ELSE ld' = [ld EXCEPT !.runs[r].pc = "embedding"]
    /\ UNCHANGED outsideDocs

\* extractPdfText / parsePdfWithClaude / file.text() rejects
IndexParseFails(r) ==
    /\ ld.runs[r].pc = "parsing"
    /\ IndexFails(r, "parse")
    /\ UNCHANGED outsideDocs

\* const embeddings = await embedTexts(batchTexts) resolved: the records of the
\* batch are pushed to allChunkRecords
IndexBatchEmbedded(r) ==
    /\ ld.runs[r].pc = "embedding"
    /\ LET i == ld.runs[r].i + BATCH_SIZE
       IN  ld' = [ld EXCEPT !.runs[r].i = i,
                            !.runs[r].pc = IF i < ld.runs[r].chunks
                                           THEN "embedding" ELSE "storing"]
    /\ UNCHANGED outsideDocs

\* embedTexts rejects
IndexEmbedFails(r) ==
    /\ ld.runs[r].pc = "embedding"
    /\ IndexFails(r, "embed")
    /\ UNCHANGED outsideDocs

\* const tx = db.transaction("chunks", "readwrite"); put each record
IndexStoreChunks(r) ==
    /\ ld.runs[r].pc = "storing"
    /\ ld' = [ld EXCEPT !.chunks = PutChunks(@, ChunkRecords(r, ld.runs[r].chunks)),
                        !.runs[r].pc = "stored"]
    /\ UNCHANGED outsideDocs

\* after tx.done: chunkCount, indexedAt, status = "ready"; db.put; return
IndexPutReady(r) ==
    /\ ld.runs[r].pc = "stored"
    /\ LET metadata == [Get(ld.runs[r].metadata) EXCEPT
                            !.chunkCount = ld.runs[r].chunks,
                            !.indexedAt = r,
                            !.status = "ready"]
       IN  ld' = [ld EXCEPT !.documents = Some(metadata),
                            !.runs[r].metadata = Some(metadata),
                            !.runs[r].pc = "resolved"]
    /\ UNCHANGED outsideDocs

\* handleDelete: deleteLargeDocument(documentId)
DeleteCall ==
    /\ ld.store = "returned"
    /\ ld.delete.pc = "idle"
    /\ ld' = [ld EXCEPT !.delete.pc = "called"]
    /\ UNCHANGED outsideDocs

\* const chunks = await db.getAllFromIndex("chunks", "by-document", documentId)
DeleteReadChunks ==
    /\ ld.delete.pc = "called"
    /\ ld' = [ld EXCEPT !.delete.chunks = {c.chunkIndex : c \in ld.chunks},
                        !.delete.pc = "read"]
    /\ UNCHANGED outsideDocs

\* chunkTx: delete(chunk.id) for each chunk read
DeleteChunks ==
    /\ ld.delete.pc = "read"
    /\ ld' = [ld EXCEPT !.chunks = {c \in @ : c.chunkIndex \notin ld.delete.chunks},
                        !.delete.pc = "chunks"]
    /\ UNCHANGED outsideDocs

\* await db.delete("documents", documentId)
DeleteMetadata ==
    /\ ld.delete.pc = "chunks"
    /\ ld' = [ld EXCEPT !.documents = None, !.delete.pc = "metadata"]
    /\ UNCHANGED outsideDocs

\* await deleteDocumentFile(documentId); await removeDocumentUmapCache; return
DeleteFile ==
    /\ ld.delete.pc = "metadata"
    /\ ld' = [ld EXCEPT !.files = FALSE, !.delete.pc = "resolved"]
    /\ UNCHANGED outsideDocs

\* saveEditing: renameLargeDocument(documentId, newFilename)
RenameCall ==
    /\ ld.store = "returned"
    /\ ld.rename.pc = "idle"
    /\ ld' = [ld EXCEPT !.rename.pc = "called"]
    /\ UNCHANGED outsideDocs

\* const doc = await db.get("documents", documentId); if (!doc) return undefined
RenameGet ==
    /\ ld.rename.pc = "called"
    /\ ld' = [ld EXCEPT !.rename.doc = ld.documents,
                        !.rename.pc = IF IsNone(ld.documents) THEN "resolved" ELSE "got"]
    /\ UNCHANGED outsideDocs

\* doc.filename = newFilename.trim(); await db.put("documents", doc)
RenamePut ==
    /\ ld.rename.pc = "got"
    /\ ld' = [ld EXCEPT
                !.documents = Some([Get(ld.rename.doc) EXCEPT !.filename = "newFilename"]),
                !.rename.pc = "resolved"]
    /\ UNCHANGED outsideDocs

NextDocs ==
    \/ StoreMetadata
    \/ StoreFile
    \/ \E r \in Runs : \E count \in ChunkCounts : IndexCall(r, count)
    \/ \E r \in Runs : IndexGetMetadata(r)
    \/ \E r \in Runs : IndexPutIndexing(r)
    \/ \E r \in Runs : IndexParsed(r)
    \/ \E r \in Runs : IndexParseFails(r)
    \/ \E r \in Runs : IndexBatchEmbedded(r)
    \/ \E r \in Runs : IndexEmbedFails(r)
    \/ \E r \in Runs : IndexStoreChunks(r)
    \/ \E r \in Runs : IndexPutReady(r)
    \/ DeleteCall
    \/ DeleteReadChunks
    \/ DeleteChunks
    \/ DeleteMetadata
    \/ DeleteFile
    \/ RenameCall
    \/ RenameGet
    \/ RenamePut

SpecDocs == InitDocs /\ [][NextDocs]_vars

----------------------------------------------------------------------------
(* useClientTools: tool calls run fire-and-forget; each yields at its awaits  *)
(* and hands its output to the function held in addToolOutputRef.             *)

\* tool calls the model hands over
MaxToolCalls == 2

ToolCallIds == 1..MaxToolCalls

\* tools by what executeToolAsync does with them; web_search has no case
ToolNames == {"kb_read", "kb_write", "document_search", "chat_search",
              "save_to_context", "web_search"}

\* the enabledTools option: its default, that of the viewer's chat, and all
EnabledToolSets == {{"kb", "documents", "chat_search"},
                    {"kb", "documents"},
                    {"kb", "documents", "chat_search", "save_to_context"}}

\* the entry of enabledTools a case checks; <<>> for the default case
ToolGroup(toolName) ==
    CASE toolName \in {"kb_read", "kb_write"} -> Some("kb")
      [] toolName = "document_search"         -> Some("documents")
      [] toolName = "chat_search"             -> Some("chat_search")
      [] toolName = "save_to_context"         -> Some("save_to_context")
      [] OTHER                                -> None

\* the awaits of a case: the kb call; the dynamic import and the search
Awaits(toolName) == IF toolName \in {"document_search", "chat_search"} THEN 2 ELSE 1

\* sendOutput, were an { error } output not to be sent
sendOutputUnlessError(t, toolName, toolCallId, output) ==
    IF t.addToolOutputRef /\ output # "error"
    THEN Append(t.outputs, [tool |-> toolName, toolCallId |-> toolCallId, output |-> output])
    ELSE t.outputs

\* if (addToolOutputRef.current) addToolOutputRef.current({ tool, toolCallId, output })
sendOutput(t, toolName, toolCallId, output) ==
    IF t.addToolOutputRef
    THEN Append(t.outputs, [tool |-> toolName, toolCallId |-> toolCallId, output |-> output])
    ELSE t.outputs

NoCall == [toolName |-> "", pc |-> "none", awaits |-> 0, refWasSet |-> FALSE]

InitTools ==
    /\ SearchIdle
    /\ rrf = <<>>
    /\ rk = <<>>
    /\ sc = <<>>
    /\ ck = <<>>
    /\ ld = <<>>
    /\ pv = <<>>
    /\ dv = <<>>
    /\ tc \in [addToolOutputRef : {FALSE},
               enabledTools     : EnabledToolSets,
               calls            : {[c \in ToolCallIds |-> NoCall]},
               outputs          : {<<>>}]

outsideTools == <<searchVars, rrf, rk, sc, ck, ld, pv, dv>>

\* addToolOutputRef.current = fn
setAddToolOutput ==
    /\ tc' = [tc EXCEPT !.addToolOutputRef = TRUE]
    /\ UNCHANGED outsideTools

\* the call returns: its output, if it has one, goes to addToolOutput
Returned(c, toolName, output) ==
    [tc EXCEPT !.calls[c] = [@ EXCEPT !.toolName = toolName, !.pc = "returned"],
               !.outputs = sendOutput(tc, toolName, c, output)]

\* handleToolCall: executeToolAsync runs up to its first await.  callbackThrows:
\* onSpawnContextSaver throws
handleToolCall(c, toolName, callbackThrows) ==
    /\ tc.calls[c].pc = "none"
    /\ c > 1 => tc.calls[c - 1].pc # "none"
    /\ LET called == [tc EXCEPT !.calls[c].refWasSet = tc.addToolOutputRef]
       IN  tc' =
             IF IsNone(ToolGroup(toolName)) \/ Get(ToolGroup(toolName)) \notin tc.enabledTools
             THEN [Returned(c, toolName, "error") EXCEPT
                       !.calls[c].refWasSet = tc.addToolOutputRef]
             ELSE IF toolName = "save_to_context"
             THEN IF callbackThrows
                  THEN [Returned(c, toolName, "error") EXCEPT
                            !.calls[c].refWasSet = tc.addToolOutputRef]
                  ELSE [called EXCEPT !.calls[c].toolName = toolName,
                                      !.calls[c].pc = "returned"]
             ELSE [called EXCEPT !.calls[c].toolName = toolName,
                                 !.calls[c].pc = "awaiting",
                                 !.calls[c].awaits = Awaits(toolName)]
    /\ UNCHANGED outsideTools

\* the awaited promise resolves: on to the next await, or the output is built
\* and sent.  callbackThrows: onKBFoldersChange throws after kb.writeFile
ToolResolves(c, callbackThrows) ==
    /\ tc.calls[c].pc = "awaiting"
    /\ tc' = IF tc.calls[c].awaits > 1
             THEN [tc EXCEPT !.calls[c].awaits = @ - 1]
             ELSE Returned(c, tc.calls[c].toolName,
                           IF tc.calls[c].toolName = "kb_write" /\ callbackThrows
                           THEN "error" ELSE "result")
    /\ UNCHANGED outsideTools

\* the awaited promise rejects: catch (error) { output = { error } }
ToolRejects(c) ==
    /\ tc.calls[c].pc = "awaiting"
    /\ tc' = Returned(c, tc.calls[c].toolName, "error")
    /\ UNCHANGED outsideTools

\* the promise a call awaits settles
ToolSettles(c) == (\E callbackThrows \in BOOLEAN : ToolResolves(c, callbackThrows)) \/ ToolRejects(c)

NextTools ==
    \/ setAddToolOutput
    \/ \E c \in ToolCallIds : \E toolName \in ToolNames : \E callbackThrows \in BOOLEAN :
          handleToolCall(c, toolName, callbackThrows)
    \/ \E c \in ToolCallIds : \E callbackThrows \in BOOLEAN : ToolResolves(c, callbackThrows)
    \/ \E c \in ToolCallIds : ToolRejects(c)

SpecTools == InitTools /\ [][NextTools]_vars

\* every awaited promise (an IndexedDB request, a fetch) settles, and the event
\* loop then runs the continuation of the call
SpecToolsFair == SpecTools /\ \A c \in ToolCallIds : WF_vars(ToolSettles(c))

----------------------------------------------------------------------------
(* The session PDF cache of the PDF viewer.  pdfCache is a Map: a sequence    *)
(* of entries in insertion order.  A getCachedPDF call yields once, at the    *)
(* load from IndexedDB; what follows the await runs without interruption.     *)

MAX_CACHE_SIZE == 10

\* getCachedPDF calls in flight together
MaxPdfCalls == 3

\* the cache at the start: empty, or filled by that many loads one after the
\* other, of the documents 1, 2, ... at the times 1, 2, ...
Preloaded == {0, MAX_CACHE_SIZE - 1, MAX_CACHE_SIZE}

\* the documents asked for: the oldest and the newest of a full cache, and two
\* that were never loaded
RequestedIds == {1, MAX_CACHE_SIZE, MAX_CACHE_SIZE + 1, MAX_CACHE_SIZE + 2}

\* pdfCache.get(documentId) is defined
Cached(cache, documentId) == \E e \in 1..Len(cache) : cache[e].documentId = documentId

\* CacheIsFull, were it to compare with >
CacheIsOverFull(cache) == Len(cache) > MAX_CACHE_SIZE

\* pdfCache.size >= MAX_CACHE_SIZE
CacheIsFull(cache) == Len(cache) >= MAX_CACHE_SIZE

\* the loop over pdfCache.entries() and pdfCache.delete(oldestKey): the first
\* entry, in insertion order, among those with the least cachedAt goes
RemoveOldest(cache) ==
    IF Len(cache) = 0 THEN cache
    ELSE LET oldest == CHOOSE e \in 1..Len(cache) :
                           /\ \A f \in 1..Len(cache) : cache[e].cachedAt <= cache[f].cachedAt
                           /\ \A f \in 1..(e - 1) : cache[f].cachedAt > cache[e].cachedAt
         IN  SubSeq(cache, 1, oldest - 1) \o SubSeq(cache, oldest + 1, Len(cache))

\* pdfCache.set(documentId, { data, cachedAt }): a key already there keeps its
\* place and takes the new value
MapSet(cache, documentId, cachedAt) ==
    IF Cached(cache, documentId)
    THEN [e \in 1..Len(cache) |->
             IF cache[e].documentId = documentId
             THEN [documentId |-> documentId, cachedAt |-> cachedAt] ELSE cache[e]]
    ELSE Append(cache, [documentId |-> documentId, cachedAt |-> cachedAt])

InitPdf ==
    /\ SearchIdle
    /\ rrf = <<>>
    /\ rk = <<>>
    /\ sc = <<>>
    /\ ck = <<>>
    /\ ld = <<>>
    /\ tc = <<>>
    /\ dv = <<>>
    /\ \E n \in Preloaded :
          pv = [pdfCache |-> [e \in 1..n |-> [documentId |-> e, cachedAt |-> e]],
                now      |-> n,
                calls    |-> [c \in 1..MaxPdfCalls |->
                                 [documentId |-> 0, pc |-> "none", value |-> "none"]]]

outsidePdf == <<searchVars, rrf, rk, sc, ck, ld, tc, dv>>

\* getCachedPDF(documentId) up to the await: a cached document is returned at
\* once, any other is loaded from IndexedDB
getCachedPDF(c, documentId) ==
    /\ pv.calls[c].pc = "none"
    /\ c > 1 => pv.calls[c - 1].pc # "none"
    /\ pv' = [pv EXCEPT !.calls[c] =
                 IF Cached(pv.pdfCache, documentId)
                 THEN [documentId |-> documentId, pc |-> "returned", value |-> "data"]
                 ELSE [documentId |-> documentId, pc |-> "loading", value |-> "none"]]
    /\ UNCHANGED outsidePdf

\* getLargeDocumentFile resolved: null for a missing file; else make room,
\* cache the data at Date.now(), which is now or later, and return a copy
FileLoaded(c, found, elapsed) ==
    /\ pv.calls[c].pc = "loading"
    /\ IF ~found
       THEN pv' = [pv EXCEPT !.calls[c].pc = "returned", !.calls[c].value = "null"]
       ELSE LET room == IF CacheIsFull(pv.pdfCache)
                        THEN RemoveOldest(pv.pdfCache) ELSE pv.pdfCache
            IN  pv' = [pv EXCEPT
                         !.pdfCache = MapSet(room, pv.calls[c].documentId, pv.now + elapsed),
                         !.now = @ + elapsed,
                         !.calls[c].pc = "returned",
                         !.calls[c].value = "data"]
    /\ UNCHANGED outsidePdf

NextPdf ==
    \/ \E c \in 1..MaxPdfCalls : \E documentId \in RequestedIds : getCachedPDF(c, documentId)
    \/ \E c \in 1..MaxPdfCalls : \E found \in BOOLEAN : \E elapsed \in {0, 1} :
          FileLoaded(c, found, elapsed)

SpecPdf == InitPdf /\ [][NextPdf]_vars

----------------------------------------------------------------------------
(* DocumentViewer: the margin chat tabs.  A selection, a click on a tab and  *)
(* a click on its close button are discrete events: React renders between    *)
(* two of them, so a handler sees the chats and the activeChat of the state   *)
(* it acts on.  The id of a chat is a fresh UUID: here the next number.       *)

\* chats opened in one session of the viewer
MaxTabs == 6

ChatIds(chats) == {chats[i] : i \in 1..Len(chats)}

InitViewer ==
    /\ SearchIdle
    /\ rrf = <<>>
    /\ rk = <<>>
    /\ sc = <<>>
    /\ ck = <<>>
    /\ ld = <<>>
    /\ tc = <<>>
    /\ pv = <<>>
    /\ dv = [chats |-> <<>>, activeChat |-> None, opened |-> 0]

outsideViewer == <<searchVars, rrf, rk, sc, ck, ld, tc, pv>>

\* setChats((prev) => [...prev, newChat]); setActiveChat(id)
handleSelection ==
    /\ dv.opened < MaxTabs
    /\ dv' = [chats      |-> Append(dv.chats, dv.opened + 1),
              activeChat |-> Some(dv.opened + 1),
              opened     |-> dv.opened + 1]
    /\ UNCHANGED outsideViewer

\* onTabChange={setActiveChat}, called with the id of a tab of the tab bar
onTabChange(id) ==
    /\ id \in ChatIds(dv.chats)
    /\ dv' = [dv EXCEPT !.activeChat = Some(id)]
    /\ UNCHANGED outsideViewer

\* ActiveAfterClose, were the closed tab to stay the active one
ActiveAfterCloseUnlessEmpty(activeChat, id, updated) ==
    IF Len(updated) = 0 THEN None ELSE activeChat

\* if (activeChat === id && updated.length > 0) setActiveChat(last of updated)
\* else if (updated.length === 0) setActiveChat(null)
ActiveAfterClose(activeChat, id, updated) ==
    IF activeChat = Some(id) /\ Len(updated) > 0 THEN Some(updated[Len(updated)])
    ELSE IF Len(updated) = 0 THEN None
    ELSE activeChat

\* handleCloseTab(id), called with the id of a tab of the tab bar
handleCloseTab(id) ==
    /\ id \in ChatIds(dv.chats)
    /\ LET updated == SelectSeq(dv.chats, LAMBDA c : c # id)
       IN  dv' = [dv EXCEPT !.chats = updated,
                            !.activeChat = ActiveAfterClose(dv.activeChat, id, updated)]
    /\ UNCHANGED outsideViewer

NextViewer ==
    \/ handleSelection
    \/ \E id \in 1..MaxTabs : onTabChange(id)
    \/ \E id \in 1..MaxTabs : handleCloseTab(id)

SpecViewer == InitViewer /\ [][NextViewer]_vars

----------------------------------------------------------------------------
(* Properties of the search *)

\* embedQuery resolved: the search went on to rank and fuse
SearchEmbedded == pc \in {"reranking", "done"} /\ path \notin {"empty_corpus", "lexical"}

Smaller(a, b) == IF a < b THEN a ELSE b

\* the candidate pool size P
PoolSize == IF shouldRerank THEN opts.retrieveK ELSE opts.topK

\* positions of the fused list that lie in the candidate pool
Pool == 1..Smaller(PoolSize, Len(combinedResults))

\* 1/(k + rank) for the chunk's 1-indexed position in a ranking, 0 when it is absent
RankTerm(ranked, id) ==
    LET hits == {i \in 1..Len(ranked) : ranked[i].chunk.id = id}
    IN  IF hits = {} THEN RatZero ELSE Rat(1, opts.rrfK + (CHOOSE i \in hits : TRUE))

\* C1: when the query embedding fails, the search resolves with exactly the
\* lexical scorer's results, in the lexical scorer's order, cut to the first topK.
C1_LexicalOnlyFallback ==
    path = "lexical" =>
        LET lex == largeDocLexicalSearch(allChunks)
            n == Smaller(opts.topK, Len(lex))
        IN  /\ pc = "done"
            /\ Len(results) = n
            /\ \A i \in 1..n :
                  /\ results[i].id = lex[i].chunk.id
                  /\ results[i].score = Milli(lex[i].lexicalScore)

\* the fallback cut a longer lexical list whose order is not the store order
C1_Witness ==
    /\ path = "lexical"
    /\ Len(lexicalResults) > opts.topK
    /\ Len(results) = 2
    /\ results[1].id > results[2].id

\* C2: whatever the options and the backend outcome, the search returns at most
\* topK results.
C2_AtMostTopK == pc = "done" => Len(results) <= opts.topK

C4_RerankedOnlyWhenScored ==
    pc = "done" =>
        \A i \in 1..Len(results) :
            results[i].reranked = Some(TRUE) => path = "rerank_scored"

\* C5: the fused score of every chunk is 1/(k + semanticRank) if it has a
\* semantic rank, plus 1/(k + lexicalRank) if it is among the lexical results,
\* each rank the 1-indexed position in the respective ranking (the semantic one
\* sorted by descending similarity, the lexical one as the scorer returned it),
\* k = rrfK.
C5_FusedScoreFormula ==
    SearchEmbedded =>
        /\ \A i, j \in 1..Len(semanticScored) :
              i < j => semanticScored[i].score >= semanticScored[j].score
        /\ \A p \in 1..Len(combinedResults) :
              RatEq(combinedResults[p].rrfScore,
                    RatAdd(RankTerm(semanticScored, combinedResults[p].chunk.id),
                           RankTerm(lexicalResults, combinedResults[p].chunk.id)))

\* three chunks fused with a k other than the default: one outside the lexical
\* results, one ranked second in them
C5_Witness ==
    /\ SearchEmbedded
    /\ opts.rrfK # DefaultRrfK
    /\ Len(combinedResults) = 3
    /\ Len(lexicalResults) = 2
    /\ lexicalResults[1].chunk.id > lexicalResults[2].chunk.id

\* C6: when embedding succeeds the fused list holds every chunk of the corpus
\* exactly once, by non-increasing RRF score, equal scores in store order.
C6_FusedListStableSorted ==
    SearchEmbedded =>
        /\ Len(combinedResults) = Len(allChunks)
        /\ \A i \in 1..Len(allChunks) :
              Cardinality({p \in 1..Len(combinedResults) :
                              combinedResults[p].chunk = allChunks[i]}) = 1
        /\ \A p, q \in 1..Len(combinedResults) :
              p < q =>
                /\ RatLeq(combinedResults[q].rrfScore, combinedResults[p].rrfScore)
                /\ RatEq(combinedResults[q].rrfScore, combinedResults[p].rrfScore)
                      => combinedResults[p].chunk.id < combinedResults[q].chunk.id

\* a fused list with a tie between two chunks and a chunk moved ahead of an
\* earlier one
C6_Witness ==
    /\ SearchEmbedded
    /\ \E p, q \in 1..Len(combinedResults) :
          /\ p < q
          /\ RatEq(combinedResults[q].rrfScore, combinedResults[p].rrfScore)
    /\ \E p, q \in 1..Len(combinedResults) :
          /\ p < q
          /\ combinedResults[p].chunk.id > combinedResults[q].chunk.id

\* C8: when embedding succeeds every returned result is one of the first P
\* entries of the fused ranking (P = retrieveK with reranking, topK without) and
\* has semantic similarity >= threshold: the filter works on the pool.
C8_ResultsFromThresholdedPool ==
    (SearchEmbedded /\ pc = "done") =>
        \A i \in 1..Len(results) :
            \E p \in Pool :
                /\ combinedResults[p].chunk.id = results[i].id
                /\ combinedResults[p].semanticScore >= opts.threshold

\* results were returned with room to spare while a chunk outside the pool
\* passes the threshold
C8_Witness ==
    /\ SearchEmbedded
    /\ pc = "done"
    /\ Len(results) >= 1
    /\ Len(results) < opts.topK
    /\ \E p \in 1..Len(combinedResults) :
          p \notin Pool /\ combinedResults[p].semanticScore >= opts.threshold

\* C9: the search resolves with the empty list when the corpus holds no chunk,
\* and when no candidate of the pool passes the semantic threshold.
C9_EmptyResults ==
    /\ (pc # "idle" /\ Len(allChunks) = 0) => (pc = "done" /\ results = <<>>)
    /\ (SearchEmbedded
        /\ \A p \in Pool : combinedResults[p].semanticScore < opts.threshold)
          => (pc = "done" /\ results = <<>>)

\* a search over a corpus that has a chunk above the threshold, none of them in
\* the pool
C9_Witness ==
    /\ path = "empty_filtered"
    /\ pc = "done"
    /\ results = <<>>
    /\ \E i \in 1..Len(allChunks) : allChunks[i].sem >= opts.threshold

\* the search reached the call of rerank()
RerankCalled ==
    \/ pc = "reranking"
    \/ path \in {"rerank_none", "rerank_failed", "rerank_scored"}

\* C15: when no reranking credential is available, the default backend
\* selection falls back to the no-op backend, so a search with default options
\* makes no scoring call to a reranking service: if it calls rerank() at all,
\* the backend it hands over is "none".
C15_NoCredentialNoScoringCall ==
    (/\ ~keys.cohere
     /\ ~keys.openai
     /\ IsNone(opts.rerank)
     /\ IsNone(opts.rerankerBackend)
     /\ pc \in {"reranking", "done"})
        => (RerankCalled => backend = "none")

\* x is a whole number of hundredths
TwoDecimals(x) == (100 * x.n) % x.d = 0

\* C16: every result the search returns, on every path (reranked, fused without
\* reranking, lexical-only fallback), has a score within [0, 1] that is rounded
\* to two decimals.
C16_ScoresUnitRounded ==
    pc = "done" =>
        \A i \in 1..Len(results) :
            /\ RatLeq(RatZero, results[i].score)
            /\ RatLeq(results[i].score, Rat(1, 1))
            /\ TwoDecimals(results[i].score)

----------------------------------------------------------------------------
(* Properties of computeRRFScore *)

\* C7: for fixed k, of two chunks with the same rank in one ranking, the one
\* with the strictly smaller rank in the other ranking has a fused score that is
\* not lower.
C7_RRFMonotone ==
    (~IsNone(rrf.scoreA) /\ rrf.a < rrf.b) =>
        RatLeq(Get(rrf.scoreB), Get(rrf.scoreA))

\* both chunks rank third in the semantic ranking, first and fourth in the lexical
C7_Witness ==
    /\ ~IsNone(rrf.scoreA)
    /\ rrf.sharedIsSemantic
    /\ rrf.shared = Some(3)
    /\ rrf.a = 1
    /\ rrf.b = MaxRank
    /\ rrf.k = DefaultRrfK

----------------------------------------------------------------------------
(* Properties of rerank() *)

\* C10: with backend "none" rerank returns one result per input candidate, in
\* input order, rank the 1-based input position, relevanceScore the candidate's
\* metadata.semanticScore when that is a number and otherwise its originalScore
\* (0 when it has none).
C10_NoOpPassThrough ==
    ~IsNone(rk.out) =>
        LET out == Get(rk.out)
        IN  /\ Len(out) = Len(rk.documents)
            /\ \A i \in 1..Len(out) :
                  /\ out[i].id = rk.documents[i].id
                  /\ out[i].rank = i
                  /\ ~IsNone(rk.documents[i].semanticScore)
                        => out[i].relevanceScore = Get(rk.documents[i].semanticScore)
                  /\ (IsNone(rk.documents[i].semanticScore)
                      /\ ~IsNone(rk.documents[i].originalScore))
                        => out[i].relevanceScore = Get(rk.documents[i].originalScore)
                  /\ (IsNone(rk.documents[i].semanticScore)
                      /\ IsNone(rk.documents[i].originalScore))
                        => out[i].relevanceScore = RatZero

\* three candidates passed through: one scored by its semantic score although
\* it has an original score, one by its original score, one by neither
C10_Witness ==
    /\ ~IsNone(rk.out)
    /\ Len(rk.documents) = 3
    /\ ~IsNone(rk.documents[1].semanticScore) /\ ~IsNone(rk.documents[1].originalScore)
    /\ IsNone(rk.documents[2].semanticScore) /\ ~IsNone(rk.documents[2].originalScore)
    /\ IsNone(rk.documents[3].semanticScore) /\ IsNone(rk.documents[3].originalScore)

----------------------------------------------------------------------------
(* Properties of the scoring backends *)

\* C11: for every scoring backend (cohere, openai, api) the list rerank returns
\* has at most topK entries and every entry has relevanceScore >= the configured
\* threshold (default 0.2).
C11_TopKAndThreshold ==
    ~IsNone(sc.out) =>
        LET out == Get(sc.out)
        IN  /\ Len(out) <= sc.topK
            /\ \A r \in 1..Len(out) : RatLeq(Milli(sc.threshold), out[r].relevanceScore)

\* the reply of request i is readable (scoreWithGPT does not throw) and its
\* parsed value is NaN / below 0 / above 1
ReplyOf(i) == Get(sc.exchanges[i])
ReplyNotANumber(i) == ReplyOf(i).ok /\ IsNone(ReplyOf(i).num)
ReplyBelowRange(i) == ReplyOf(i).ok /\ ~IsNone(ReplyOf(i).num) /\ Get(ReplyOf(i).num) < 0
ReplyAboveRange(i) ==
    ReplyOf(i).ok /\ ~IsNone(ReplyOf(i).num) /\ Get(ReplyOf(i).num) > ScoreScale

\* C12 as stated: in the chat-model scorer a reply that does not parse as a
\* number within [0, 1] gives that candidate the score 0 and raises no error.
C12_MalformedScoresZero ==
    ~IsNone(sc.scoredDocs) =>
        \A i \in 1..Len(sc.documents) :
            (ReplyNotANumber(i) \/ ReplyBelowRange(i) \/ ReplyAboveRange(i))
                => RatEq(Get(sc.scoredDocs)[i].score, RatZero)

\* C12, amended: a reply that does not parse as a number gives that candidate
\* the score 0; a number outside [0, 1] is clamped to the nearer end of the
\* range, 0 below it and 1 above it; in neither case is an error raised, the
\* candidate's score being the scorer's value and not the failure fallback.
C12_MalformedClamped ==
    ~IsNone(sc.scoredDocs) =>
        \A i \in 1..Len(sc.documents) :
            /\ ReplyNotANumber(i) => RatEq(Get(sc.scoredDocs)[i].score, RatZero)
            /\ ReplyBelowRange(i) => RatEq(Get(sc.scoredDocs)[i].score, RatZero)
            /\ ReplyAboveRange(i) => RatEq(Get(sc.scoredDocs)[i].score, Rat(1, 1))

\* a completed batch of three: one reply is not a number, one is below the
\* range, one above it
C12_Witness ==
    /\ ~IsNone(sc.scoredDocs)
    /\ Len(sc.documents) = 3
    /\ ReplyNotANumber(1)
    /\ ReplyBelowRange(2)
    /\ ReplyAboveRange(3)

\* C13: in the chat-model backends the per-candidate requests run concurrently
\* and are awaited together; whichever of them fail or reply with malformed
\* output, and in whatever order they settle, the batch completes with one
\* scored entry per candidate, and every candidate whose own request did not
\* fail is scored from its own reply.
C13_BatchIndependent ==
    ~IsNone(sc.scoredDocs) =>
        LET scoredDocs == Get(sc.scoredDocs)
            out == Get(sc.out)
        IN  /\ Len(scoredDocs) = Len(sc.documents)
            /\ \A i \in 1..Len(sc.documents) :
                  /\ scoredDocs[i].doc = sc.documents[i]
                  /\ ReplyOf(i).ok =>
                        RatEq(scoredDocs[i].score, Milli(GptScore(ReplyOf(i))))
            /\ \A r \in 1..Len(out) :
                  \E i \in 1..Len(sc.documents) :
                      /\ out[r].id = sc.documents[i].id
                      /\ out[r].relevanceScore = scoredDocs[i].score

\* a batch of three that settled last-first: the first request failed, the
\* second replied with something that is not a number, and the third candidate
\* is returned with the 0.9 of its own reply
C13_Witness ==
    /\ ~IsNone(sc.out)
    /\ sc.backend = "openai"
    /\ sc.settled = <<3, 2, 1>>
    /\ ~ReplyOf(1).ok
    /\ ReplyNotANumber(2)
    /\ ReplyOf(3) = [ok |-> TRUE, num |-> Some(900)]
    /\ Len(Get(sc.out)) = 1
    /\ Get(sc.out)[1].id = 3
    /\ Get(sc.out)[1].relevanceScore = Milli(900)

----------------------------------------------------------------------------
(* Properties of chunkChatMessages *)

\* C17: for any message list and any maxTokens the returned array satisfies
\* chunks[i].index = i at every (0-based) position i.
C17_IndexIsPosition ==
    ck.returned => \A i \in 1..Len(ck.chunks) : ck.chunks[i].index = i - 1

\* two messages were chunked, the second one into several chunks
C17_Witness ==
    /\ ck.returned
    /\ Len(ck.chunks) >= 3
    /\ ck.chunks[1].messageIndex = 0
    /\ ck.chunks[2].messageIndex = 1
    /\ ck.chunks[3].messageIndex = 1

\* the message whose text a piece of a chunk comes from
IsUnitOf(piece, m) == piece.kind = "unit" /\ piece.msg = m
HasTextOf(chunk, m) == \E p \in 1..Len(chunk.text) : IsUnitOf(chunk.text[p], m)

\* the chunks that hold text of message m, in the order of the returned array
ChunksOf(m) == SelectSeq(ck.chunks, LAMBDA chunk : HasTextOf(chunk, m))

Included(m) == shouldIncludeMessage(ck.messages, m)
RoleOf(m) == ck.messages[m].role
PrefixedTextOf(m) == <<PrefixPiece(RoleOf(m))>> \o extractTextFromMessage(ck.messages, m)
\* unit u of message m with the role marker in front
PrefixedUnit(m, u) == <<PrefixPiece(RoleOf(m)), UnitPiece(m, u, ck.messages[m].units[u].len)>>

\* C18: a message whose prefixed text exceeds maxTokens, also one with no
\* paragraph or sentence boundary in it, is split into several chunks, each
\* with an estimated token count of at most maxTokens.
C18_OversizeMessageSplit ==
    ck.returned =>
        \A m \in 1..Len(ck.messages) :
            (Included(m) /\ estimateTokens(PrefixedTextOf(m)) > ck.maxTokens) =>
                /\ Len(ChunksOf(m)) >= 2
                /\ \A k \in 1..Len(ChunksOf(m)) :
                      estimateTokens(ChunksOf(m)[k].text) <= ck.maxTokens

StripPrefix(text) == IF Len(text) > 0 /\ text[1].kind = "prefix" THEN Tail(text) ELSE text

\* the texts of the chunks, role marker stripped, one after the other
Concatenated(chunks) ==
    LET cat[k \in 0..Len(chunks)] ==
            IF k = 0 THEN <<>> ELSE cat[k - 1] \o StripPrefix(chunks[k].text)
    IN  cat[Len(chunks)]

UnitsIn(text) == SelectSeq(text, LAMBDA piece : piece.kind = "unit")

C20_RoleMarkerOnEveryChunk ==
    ck.returned =>
        \A i \in 1..Len(ck.chunks) :
            \A m \in 1..Len(ck.messages) :
                HasTextOf(ck.chunks[i], m) =>
                    /\ RoleOf(m) \in {"user", "assistant"}
                    /\ ck.chunks[i].text[1] = PrefixPiece(RoleOf(m))
                    /\ ck.chunks[i].messageRole = RoleOf(m)

\* an assistant message after a user message, split into two chunks
C20_Witness ==
    /\ ck.returned
    /\ Len(ck.chunks) = 3
    /\ ck.chunks[1].messageRole = "user"
    /\ HasTextOf(ck.chunks[2], 2)
    /\ HasTextOf(ck.chunks[3], 2)
    /\ ck.chunks[3].messageRole = "assistant"

\* a message that is no user or assistant turn, or that has no text beyond
\* whitespace (a tool call, an empty turn)
NoTurnOrNoText(m) ==
    \/ ck.messages[m].role \notin {"user", "assistant"}
    \/ Len(ck.messages[m].units) = 0

\* C21: no chunk is emitted for a message whose role is neither user nor
\* assistant or whose text is empty or whitespace-only, at least one chunk is
\* emitted for every other message, and every chunk holds text of a message.
C21_SkippedMessagesEmitNothing ==
    ck.returned =>
        /\ \A m \in 1..Len(ck.messages) :
              IF NoTurnOrNoText(m) THEN Len(ChunksOf(m)) = 0 ELSE Len(ChunksOf(m)) >= 1
        /\ \A i \in 1..Len(ck.chunks) :
              \E m \in 1..Len(ck.messages) : HasTextOf(ck.chunks[i], m)

\* a system message with text and an empty user turn were passed over, the
\* assistant message after them was chunked
C21_Witness ==
    /\ ck.returned
    /\ Len(ck.messages) = 3
    /\ RoleOf(1) = "system" /\ Len(ck.messages[1].units) = 1
    /\ RoleOf(2) = "user" /\ Len(ck.messages[2].units) = 0
    /\ RoleOf(3) = "assistant"
    /\ Len(ck.chunks) = 1
    /\ HasTextOf(ck.chunks[1], 3)

\* a suffix of the content of one chunk opens the content of the next
Overlaps(previous, current) ==
    \E n \in 1..Len(previous) :
        /\ n <= Len(current)
        /\ SubSeq(previous, Len(previous) - n + 1, Len(previous)) = SubSeq(current, 1, n)

\* C22: when a message is split into several chunks, each chunk after the first
\* starts with trailing content of the chunk before it.
C22_ChunksOverlap ==
    ck.returned =>
        \A m \in 1..Len(ck.messages) :
            \A k \in 2..Len(ChunksOf(m)) :
                Overlaps(StripPrefix(ChunksOf(m)[k - 1].text),
                         StripPrefix(ChunksOf(m)[k].text))

\* C23: each chunk's messageIndex is the 0-based position of its source message
\* in the messages array.
C23_MessageIndexIsArrayPosition ==
    ck.returned =>
        \A i \in 1..Len(ck.chunks) :
            \A m \in 1..Len(ck.messages) :
                HasTextOf(ck.chunks[i], m) => ck.chunks[i].messageIndex = m - 1

----------------------------------------------------------------------------
(* Properties of the large-document store *)

StatusOf(documents) == Get(documents).status

\* C24: every change of the document's status follows
\* uploading -> indexing -> (ready | error): the record is created as
\* uploading, and a run that started indexing ends with the record ready or
\* error; no other change of status occurs.
C24_StatusLifecycle ==
    [][/\ (IsNone(ld.documents) /\ ~IsNone(ld'.documents)) =>
              StatusOf(ld'.documents) = "uploading"
       /\ (~IsNone(ld.documents) /\ ~IsNone(ld'.documents)
              /\ StatusOf(ld'.documents) # StatusOf(ld.documents)) =>
              \/ StatusOf(ld.documents) = "uploading" /\ StatusOf(ld'.documents) = "indexing"
              \/ StatusOf(ld.documents) = "indexing"
                    /\ StatusOf(ld'.documents) \in {"ready", "error"}]_vars

\* C25: once deleteLargeDocument has completed, the store holds no metadata
\* record and no chunk of the document, whatever else is in flight.
C25_DeletedStaysDeleted ==
    ld.delete.pc = "resolved" => IsNone(ld.documents) /\ ld.chunks = {}

\* C26: whenever the status is ready, the stored chunks are exactly those of
\* the latest indexing run: chunkIndex 0..chunkCount-1, no gaps or extras, all
\* written by the run that set the status.
C26_ReadyChunksAreLatestRun ==
    (~IsNone(ld.documents) /\ StatusOf(ld.documents) = "ready") =>
        LET metadata == Get(ld.documents)
        IN  /\ {c.chunkIndex : c \in ld.chunks} = 0..(metadata.chunkCount - 1)
            /\ Cardinality(ld.chunks) = metadata.chunkCount
            /\ \A c \in ld.chunks : c.run = metadata.indexedAt

\* run r fails in this step: parsing, chunking or an embedding batch
RunFails(r) == ld.runs[r].pc \in {"parsing", "embedding"} /\ ld'.runs[r].pc = "rejected"

\* C27: when parsing, chunking or an embedding batch of a run fails, the step
\* writes no chunk, leaves the record with status error and errorMessage set
\* to the error, and rejects the call with that error; and the store never
\* holds a chunk of a run that failed.
C27_FailedRunWritesNothing ==
    /\ [][\A r \in Runs :
            RunFails(r) =>
                /\ ld'.chunks = ld.chunks
                /\ StatusOf(ld'.documents) = "error"
                /\ ~IsNone(ld'.runs[r].thrown)
                /\ Get(ld'.documents).errorMessage = ld'.runs[r].thrown]_vars
    /\ [](\A r \in Runs :
            ld.runs[r].pc = "rejected" => \A c \in ld.chunks : c.run # r)

\* the second embedding batch of the first run failed: nothing was stored and
\* the record says error
C27_Witness ==
    /\ ld.runs[1].pc = "rejected"
    /\ ld.runs[1].thrown = Some("embed")
    /\ ld.runs[1].i = BATCH_SIZE
    /\ ld.runs[2].pc = "idle"
    /\ ld.chunks = {}
    /\ StatusOf(ld.documents) = "error"

----------------------------------------------------------------------------
(* Properties of useClientTools *)

OutputsFor(c) == SelectSeq(tc.outputs, LAMBDA o : o.toolCallId = c)

EnabledSaveToContext(c) ==
    tc.calls[c].toolName = "save_to_context" /\ "save_to_context" \in tc.enabledTools

\* call c was passed to handleToolCall after setAddToolOutput, and is one that
\* owes an output
OwesOutput(c) ==
    tc.calls[c].pc # "none" /\ tc.calls[c].refWasSet /\ ~EnabledSaveToContext(c)

DisabledOrUnknown(toolName) ==
    IsNone(ToolGroup(toolName)) \/ Get(ToolGroup(toolName)) \notin tc.enabledTools

\* C28: once setAddToolOutput has been called, every call passed to
\* handleToolCall, an enabled save_to_context call aside, eventually has
\* exactly one output under its toolCallId, an { error } object when the tool
\* is disabled or unknown; and no call ever has two.
C28_EveryCallDeliversOneOutput ==
    /\ [](\A c \in ToolCallIds :
            /\ Len(OutputsFor(c)) <= 1
            /\ \A k \in 1..Len(OutputsFor(c)) :
                  /\ OutputsFor(c)[k].tool = tc.calls[c].toolName
                  /\ DisabledOrUnknown(tc.calls[c].toolName) =>
                         OutputsFor(c)[k].output = "error")
    /\ \A c \in ToolCallIds : [](OwesOutput(c) => <>(Len(OutputsFor(c)) = 1))

\* two calls ran side by side: the second, a search whose promise rejected,
\* delivered its error before the first delivered its result
C28_Witness ==
    /\ Len(tc.outputs) = 2
    /\ tc.outputs[1] = [tool |-> "document_search", toolCallId |-> 2, output |-> "error"]
    /\ tc.outputs[2] = [tool |-> "kb_read", toolCallId |-> 1, output |-> "result"]
    /\ tc.calls[1].refWasSet
    /\ tc.calls[2].refWasSet

----------------------------------------------------------------------------
(* Properties of the session PDF cache *)

\* C29: the cache never holds more than MAX_CACHE_SIZE documents, and no
\* document twice, however the getCachedPDF calls for the same or different
\* documents interleave.
C29_CacheBounded ==
    /\ Len(pv.pdfCache) <= MAX_CACHE_SIZE
    /\ \A e, f \in 1..Len(pv.pdfCache) :
          pv.pdfCache[e].documentId = pv.pdfCache[f].documentId => e = f

\* two documents that were not cached were loaded side by side into a full
\* cache: each load evicted one entry, and the cache is full again
C29_Witness ==
    /\ pv.calls[1].pc = "returned" /\ pv.calls[1].documentId = MAX_CACHE_SIZE + 1
    /\ pv.calls[2].pc = "returned" /\ pv.calls[2].documentId = MAX_CACHE_SIZE + 2
    /\ Len(pv.pdfCache) = MAX_CACHE_SIZE
    /\ Cached(pv.pdfCache, MAX_CACHE_SIZE + 1)
    /\ Cached(pv.pdfCache, MAX_CACHE_SIZE + 2)
    /\ ~Cached(pv.pdfCache, 1)
    /\ ~Cached(pv.pdfCache, 2)

----------------------------------------------------------------------------
(* Properties of the document viewer *)

\* C30: after any sequence of selections, tab switches and tab closes,
\* activeChat is null exactly when the chat list is empty, and is otherwise
\* the id of a chat in the list.
C30_ActiveChatInList ==
    /\ IsNone(dv.activeChat) <=> Len(dv.chats) = 0
    /\ ~IsNone(dv.activeChat) => Get(dv.activeChat) \in ChatIds(dv.chats)

\* three chats were opened; the active one (the third) and then the first were
\* closed: the second is left and is the active one
C30_Witness ==
    /\ dv.opened = 3
    /\ dv.chats = <<2>>
    /\ dv.activeChat = Some(2)

====
